---- MODULE Spec2Model ----
(***************************************************************************)
(* A model of streamlit.py, the "Battle of the albums" Streamlit script.   *)
(*                                                                         *)
(* Streamlit executes the whole script, top to bottom and in a fresh       *)
(* namespace, once when a session starts and once more after every widget  *)
(* interaction.  One execution of the script is therefore one action of    *)
(* the model.  What survives from one execution to the next is the         *)
(* st.cache_data store of the three loaders and the two selectboxes'       *)
(* widget state; the script's own variables do not.                        *)
(*                                                                         *)
(* Texts that the script edits character by character (album ids as trace  *)
(* names, album names, plotly hover templates) are sequences of one        *)
(* character strings.  Floating point results of scipy's ttest_ind are     *)
(* records that say whether the value is NaN, infinite or a rational.      *)
(***************************************************************************)
EXTENDS Integers, Sequences, FiniteSets, TLC

VARIABLES
    csv,      \* the three CSV files under FILE_SOURCE_PREFIX (never written)
    cache,    \* st.cache_data: loader name -> <<>> or <<stored value>>
    reads,    \* loader name -> number of pd.read_csv calls made so far
    widget,   \* the selectboxes' values: <<album_1_name, album_2_name>>
    pc,       \* "start": no execution yet; "line 112": an execution has
              \* reached line 112; "end": the last execution is over
    frame,    \* the script's variables the charts read, while pc = "line 112"
    view      \* what the current or last execution of the script rendered

vars == <<csv, cache, reads, widget, pc, frame, view>>

(***************************************************************************)
(* Bounds of the input data.                                               *)
(***************************************************************************)
MaxVotes == 2     \* rating events per album

\* The values of a rating, of a vote and of an album's aggregate.
Ratings == {1, 2}

\* Albums of the data set, in file order.
AlbumKeys == <<1, 2>>

\* The album_id column of the three files, as text, per album.  A column of
\* digit strings only is read by pd.read_csv as int64, any other as str.
IdColumns ==
    { << <<"1">>, <<"2">> >>,
      << <<"k", "1">>, <<"k", "2">> >>,
      << <<"x">>, <<"k", "2">> >> }

\* The characters of the ids, by code point.
CodePoints == <<"0", "1", "2", "3", "4", "5", "6", "7", "8", "9", "k", "x">>

\* artist_to_id.csv: the 'artist_name' column, per album.
ArtistNames == <<"Artist A - Album X", "Artist B - Album Y">>

\* top_500_albums.csv: the 'name' column, per album.
AlbumNames == << <<"X">>, <<"Y">> >>

\* artist_to_id.csv holds no row, or one row per album.
Directories == { <<>>, AlbumKeys }

Digits == {"0", "1", "2", "3", "4", "5", "6", "7", "8", "9"}

IsSorted(s) == \A i \in 1..(Len(s) - 1) : s[i] <= s[i + 1]

\* The ratings one album received, in file order.
VoteLists ==
    { s \in UNION { [1..n -> Ratings] : n \in 0..MaxVotes } : IsSorted(s) }

(***************************************************************************)
(* The files.                                                              *)
(***************************************************************************)
\* pd.read_csv's dtype inference for an album_id column.
IdColumnIsInt(ids) ==
    \A a \in DOMAIN ids : \A i \in DOMAIN ids[a] : ids[a][i] \in Digits

DirectoryFile(ids, dir) ==
    [i \in DOMAIN dir |->
        [artist_name |-> ArtistNames[dir[i]], album_id |-> ids[dir[i]]]]

AlbumsFile(ids, agg) ==
    [a \in DOMAIN AlbumKeys |->
        [album_id |-> ids[a], album_id_is_int |-> IdColumnIsInt(ids),
         name |-> AlbumNames[a], artist |-> ArtistNames[a],
         date |-> "2020", rating |-> agg[a], genres |-> "genres"]]

\* rating_events.csv: the albums' votes interleaved, the k-th vote of every
\* album before the (k+1)-th of any; two votes of an album share a day.
RECURSIVE RatingRows(_, _, _)
RatingRows(ids, votes, i) ==
    LET n == Len(AlbumKeys)
        k == ((i - 1) \div n) + 1
        a == ((i - 1) % n) + 1
    IN  IF k > MaxVotes THEN <<>>
        ELSE (IF k <= Len(votes[a])
                THEN << [album_id |-> ids[a], rating |-> votes[a][k],
                         event_time |-> (k + 1) \div 2] >>
                ELSE <<>>)
             \o RatingRows(ids, votes, i + 1)

RatingsFile(ids, votes) ==
    [columns |-> <<"album_id", "rating", "event_time">>,
     event_time_dtype |-> "object",
     rows |-> RatingRows(ids, votes, 1),
     obj |-> "file"]

LoaderNames == {"load_dropdown_data", "load_all_ratings", "load_all_albums"}


(***************************************************************************)
(* The cached loaders (lines 11-26).                                       *)
(***************************************************************************)
\* set_index('artist_name').to_dict()['album_id']: a later row of the same
\* name overwrites an earlier one.
MappingOf(file) ==
    [n \in {file[i].artist_name : i \in DOMAIN file} |->
        LET last == CHOOSE i \in DOMAIN file :
                        /\ file[i].artist_name = n
                        /\ \A j \in DOMAIN file : file[j].artist_name = n => j <= i
        IN  file[last].album_id]

\* The body of each loader: what it computes from its file on a cache miss.
LoaderBody(f, files) ==
    CASE f = "load_dropdown_data" ->
            [artist_name_list |->
                [i \in DOMAIN files.directory |-> files.directory[i].artist_name],
             mapping_album_id |-> MappingOf(files.directory)]
      [] f = "load_all_ratings" -> [files.ratings EXCEPT !.obj = "cache"]
      [] f = "load_all_albums" -> files.albums

\* The mutant of CacheHit: the memoisation never finds its entry.
CacheHitNever(c, f) == FALSE

\* @st.cache_data: does the store hold the result of loader f?
CacheHit(c, f) == c[f] # <<>>

\* A call of loader f with the store c and the read counters r: the value
\* returned, and the store and the counters after the call.
CachedCall(c, r, f, files) ==
    IF CacheHit(c, f)
    THEN [value |-> c[f][1], cache |-> c, reads |-> r]
    ELSE LET v == LoaderBody(f, files)
         IN  [value |-> v,
              cache |-> [c EXCEPT ![f] = <<v>>],
              reads |-> [r EXCEPT ![f] = @ + 1]]

\* st.cache_data hands out a copy of the stored table, a new object.
CopyOfCached(table) == [table EXCEPT !.obj = "all_ratings"]

(***************************************************************************)
(* Filtering (lines 28-38).                                                *)
(***************************************************************************)
RECURSIVE SelectRows(_, _)
SelectRows(rows, id) ==
    IF rows = <<>> THEN <<>>
    ELSE (IF Head(rows).album_id = id THEN <<Head(rows)>> ELSE <<>>)
         \o SelectRows(Tail(rows), id)

\* all_ratings[all_ratings['album_id'] == id]: a new table of the matching rows.
BooleanIndex(table, id, name) ==
    [table EXCEPT !.rows = SelectRows(table.rows, id), !.obj = name]

\* load_albums_ratings
load_albums_ratings(all_ratings, album_1_id, album_2_id) ==
    <<BooleanIndex(all_ratings, album_1_id, "album_1_data"),
      BooleanIndex(all_ratings, album_2_id, "album_2_data")>>

\* all_albums[all_albums['album_id'] == id].to_dict('records'): [0] of it
\* raises IndexError when it is empty.
MetadataRecords(all_albums, id) == SelectRows(all_albums, id)

RatingColumn(table) == [i \in DOMAIN table.rows |-> table.rows[i].rating]

(***************************************************************************)
(* Selection (lines 63-67).                                                *)
(***************************************************************************)
\* st.selectbox returns None when it has no option to offer.
None == "None"

\* The mutant of ResolveSelection: the handler swallows the KeyError silently.
ResolveSelectionSilent(mapping, n1, n2) ==
    IF n1 \notin DOMAIN mapping THEN [message |-> FALSE, ids |-> << <<>>, <<>> >>]
    ELSE IF n2 \notin DOMAIN mapping
         THEN [message |-> FALSE, ids |-> << <<mapping[n1]>>, <<>> >>]
         ELSE [message |-> FALSE, ids |-> << <<mapping[n1]>>, <<mapping[n2]>> >>]

\* The try/except of lines 63-67.  The result says whether the retry message
\* was written and which of album_1_id, album_2_id are bound afterwards
\* (<<>>: unbound, <<id>>: bound); a name of the previous execution is not
\* bound in this one.
ResolveSelection(mapping, n1, n2) ==
    IF n1 \notin DOMAIN mapping THEN [message |-> TRUE, ids |-> << <<>>, <<>> >>]
    ELSE IF n2 \notin DOMAIN mapping
         THEN [message |-> TRUE, ids |-> << <<mapping[n1]>>, <<>> >>]
         ELSE [message |-> FALSE, ids |-> << <<mapping[n1]>>, <<mapping[n2]>> >>]

(***************************************************************************)
(* Welch's t-test (line 88) and the verdict (lines 91-100).                *)
(***************************************************************************)
RECURSIVE Sum(_)
Sum(s) == IF s = <<>> THEN 0 ELSE Head(s) + Sum(Tail(s))

RECURSIVE SumSq(_)
SumSq(s) == IF s = <<>> THEN 0 ELSE Head(s) * Head(s) + SumSq(Tail(s))

\* Floating point values: NaN, or the rational num/den.
NaN == [nan |-> TRUE, num |-> 0, den |-> 1]
Float(n, d) == [nan |-> FALSE, num |-> n, den |-> d]

\* The p-values the t distribution's integral can give for a statistic that
\* is finite and not zero: strictly between 0 and 1.  The model keeps a value
\* on each side of the significance level, the level itself and the extremes.
InteriorP == {Float(1, 100), Float(5, 100), Float(6, 100), Float(99, 100)}

Sign(x) == IF x > 0 THEN 1 ELSE IF x < 0 THEN -1 ELSE 0

\* stats.ttest_ind(a, b, equal_var=False).  With n the sizes, S the sums and
\* Q the sums of squares, the sample variance is A/(n(n-1)), A = nQ - S^2,
\* and
\*    t = (S1/n1 - S2/n2) / sqrt(A1/(n1^2 (n1-1)) + A2/(n2^2 (n2-1))).
\* A sample of fewer than two values has no variance (NaN), and so no
\* statistic; two constant samples give 0/0 = NaN when their means agree and
\* an infinite statistic, p = 0, when they differ; equal means give t = 0,
\* p = 1.  Otherwise t is finite, kept as its sign and its square, and the
\* p-value is q.
TTestInd(a, b, q) ==
    LET n1 == Len(a)
        n2 == Len(b)
        A1 == n1 * SumSq(a) - Sum(a) * Sum(a)
        A2 == n2 * SumSq(b) - Sum(b) * Sum(b)
        D  == Sum(a) * n2 - Sum(b) * n1
    IN  IF n1 < 2 \/ n2 < 2
        THEN [t_stat |-> [kind |-> "nan", sign |-> 0, sq_num |-> 0, sq_den |-> 1],
              p_value |-> NaN]
        ELSE IF A1 = 0 /\ A2 = 0
        THEN IF D = 0
             THEN [t_stat |-> [kind |-> "nan", sign |-> 0, sq_num |-> 0, sq_den |-> 1],
                   p_value |-> NaN]
             ELSE [t_stat |-> [kind |-> "inf", sign |-> Sign(D), sq_num |-> 1, sq_den |-> 0],
                   p_value |-> Float(0, 1)]
        ELSE IF D = 0
        THEN [t_stat |-> [kind |-> "finite", sign |-> 0, sq_num |-> 0, sq_den |-> 1],
              p_value |-> Float(1, 1)]
        ELSE [t_stat |-> [kind |-> "finite", sign |-> Sign(D),
                          sq_num |-> D * D * (n1 - 1) * (n2 - 1),
                          sq_den |-> A1 * n2 * n2 * (n2 - 1) + A2 * n1 * n1 * (n1 - 1)],
              p_value |-> q]

\* The significance level of line 91, 0.05 = AlphaNum / AlphaDen.
AlphaNum == 5
AlphaDen == 100

\* The mutant of h0_holds: the comparison turned around.
h0_holds_flipped(p_value) ==
    /\ ~p_value.nan
    /\ p_value.num * AlphaDen < AlphaNum * p_value.den

\* h0_holds = p_value > 0.05; a comparison with NaN is False.
h0_holds(p_value) ==
    /\ ~p_value.nan
    /\ p_value.num * AlphaDen > AlphaNum * p_value.den

CanNotSay == [sentence |-> "can not say", first |-> <<>>, second |-> <<>>]
BetterThan(a, b) == [sentence |-> "is better than", first |-> a, second |-> b]

\* The mutant of Verdict for the order of the names: the elif of line 97 with <.
VerdictLower(p_value, m1, m2) ==
    IF h0_holds(p_value) THEN CanNotSay
    ELSE IF m1.rating = m2.rating THEN CanNotSay
    ELSE IF m1.rating < m2.rating THEN BetterThan(m1.name, m2.name)
    ELSE BetterThan(m2.name, m1.name)

\* The mutant of Verdict for the tie: the test of line 95 left out.
VerdictNoTie(p_value, m1, m2) ==
    IF h0_holds(p_value) THEN CanNotSay
    ELSE IF m1.rating > m2.rating THEN BetterThan(m1.name, m2.name)
    ELSE BetterThan(m2.name, m1.name)

\* The markdown sentence of lines 92-100.
Verdict(p_value, m1, m2) ==
    IF h0_holds(p_value) THEN CanNotSay
    ELSE IF m1.rating = m2.rating THEN CanNotSay
    ELSE IF m1.rating > m2.rating THEN BetterThan(m1.name, m2.name)
    ELSE BetterThan(m2.name, m1.name)


(***************************************************************************)
(* The charts (lines 112-157).                                             *)
(***************************************************************************)
\* pd.concat([album_1_data, album_2_data]): a new table, the rows of the
\* first and then the rows of the second.
Concat(a, b) ==
    [columns |-> a.columns, event_time_dtype |-> a.event_time_dtype,
     rows |-> a.rows \o b.rows, obj |-> "combined_data_for_graphs"]

RECURSIVE DistinctIds(_, _)
\* The album ids of rows in the order of their first appearance.
DistinctIds(rows, seen) ==
    IF rows = <<>> THEN <<>>
    ELSE IF Head(rows).album_id \in seen THEN DistinctIds(Tail(rows), seen)
    ELSE <<Head(rows).album_id>>
         \o DistinctIds(Tail(rows), seen \cup {Head(rows).album_id})

\* plotly express writes the colour column's label and the group's value,
\* as text, at the head of a trace's hover template.
HistogramHover(id) ==
    <<"A", "l", "b", "u", "m", "=">> \o id \o
    <<"<", "b", "r", ">", "R", "a", "t", "i", "n", "g", "=", "%", "{", "x", "}",
      "<", "b", "r", ">", "c", "o", "u", "n", "t", "=", "%", "{", "y", "}",
      "<", "e", "x", "t", "r", "a", ">", "<", "/", "e", "x", "t", "r", "a", ">">>

LineHover(id) ==
    <<"A", "l", "b", "u", "m", "=">> \o id \o
    <<"<", "b", "r", ">", "D", "a", "t", "e", "=", "%", "{", "x", "}",
      "<", "b", "r", ">", "R", "a", "t", "i", "n", "g", " ", "(", "m", "e", "a", "n", ")",
      "=", "%", "{", "y", "}",
      "<", "e", "x", "t", "r", "a", ">", "<", "/", "e", "x", "t", "r", "a", ">">>

\* px.histogram(combined, x='rating', color='album_id'): one trace per album
\* id, named by the id as text, holding the ratings of that id's rows.
histograms_fig(combined) ==
    LET ids == DistinctIds(combined.rows, {})
    IN  [i \in DOMAIN ids |->
            [album_id |-> ids[i], name |-> ids[i], legendgroup |-> ids[i],
             hovertemplate |-> HistogramHover(ids[i]),
             x |-> RatingColumn(BooleanIndex(combined, ids[i], "trace")),
             y |-> <<>>]]

\* name_mapping of line 125, a dict: the second entry overwrites the first
\* when the keys are equal.  Its keys have the album_id column's type.
name_mapping(m1, m2) ==
    [keys_are_int |-> m1.album_id_is_int,
     names |-> (m2.album_id :> m2.name) @@ (m1.album_id :> m1.name)]

\* name_mapping[t.name]: t.name is text, and no text equals an int key.
HasKey(nm, name) == ~nm.keys_are_int /\ name \in DOMAIN nm.names

RECURSIVE Replace(_, _, _)
\* str.replace(old, new) for a non-empty old: every occurrence of old, found
\* from the left and not overlapping, becomes new.
Replace(s, old, new) ==
    IF Len(s) < Len(old) THEN s
    ELSE IF SubSeq(s, 1, Len(old)) = old
         THEN new \o Replace(SubSeq(s, Len(old) + 1, Len(s)), old, new)
         ELSE <<s[1]>> \o Replace(Tail(s), old, new)

\* The lambda of lines 127-130 and 152-155.
UpdateTrace(t, nm) ==
    [t EXCEPT !.name = nm.names[t.name],
              !.legendgroup = nm.names[t.name],
              !.hovertemplate = Replace(t.hovertemplate, t.name, nm.names[t.name])]

\* for_each_trace: it raises KeyError at the first trace whose name is no key.
ForEachTraceRaises(fig, nm) == \E i \in DOMAIN fig : ~HasKey(nm, fig[i].name)
ForEachTrace(fig, nm) == [i \in DOMAIN fig |-> UpdateTrace(fig[i], nm)]

\* Lines 136-137 assign two columns of the table in place.
AssignColumns(table) ==
    [table EXCEPT !.event_time_dtype = "datetime64[ns]",
                  !.columns = @ \o <<"date">>]

\* The store after an in-place assignment to the object target: the stored
\* table changes only if it is that very object.
StoreAfterAssign(c, target, assigned) ==
    IF c["load_all_ratings"] # <<>> /\ c["load_all_ratings"][1].obj = target.obj
    THEN [c EXCEPT !["load_all_ratings"] = <<assigned>>]
    ELSE c

CharRank(ch) == CHOOSE i \in DOMAIN CodePoints : CodePoints[i] = ch

RECURSIVE TextLess(_, _)
TextLess(a, b) ==
    IF b = <<>> THEN FALSE
    ELSE IF a = <<>> THEN TRUE
    ELSE IF Head(a) = Head(b) THEN TextLess(Tail(a), Tail(b))
    ELSE CharRank(Head(a)) < CharRank(Head(b))

\* The order of album ids: of the numbers when the column is int64, of the
\* texts otherwise.
IdLess(a, b, is_int) ==
    IF is_int /\ Len(a) # Len(b) THEN Len(a) < Len(b) ELSE TextLess(a, b)

KeyLess(k1, k2, is_int) ==
    \/ k1.date < k2.date
    \/ k1.date = k2.date /\ IdLess(k1.album_id, k2.album_id, is_int)

RECURSIVE SortKeys(_, _)
SortKeys(keys, is_int) ==
    IF keys = {} THEN <<>>
    ELSE LET least == CHOOSE k \in keys :
                        \A other \in keys \ {k} : KeyLess(k, other, is_int)
         IN  <<least>> \o SortKeys(keys \ {least}, is_int)

\* groupby(['date','album_id']).agg(rating_mean=('rating','mean')).reset_index():
\* one row per day and album, sorted by day and album; the mean is kept as
\* the sum and the number of the group's ratings.
mean_over_time(table, is_int) ==
    LET rows == table.rows
        keys == {[date |-> rows[i].event_time, album_id |-> rows[i].album_id] :
                    i \in DOMAIN rows}
        sorted == SortKeys(keys, is_int)
        group(k) == {i \in DOMAIN rows :
                        rows[i].event_time = k.date /\ rows[i].album_id = k.album_id}
        ratings(k) == [i \in DOMAIN rows |->
                        IF i \in group(k) THEN rows[i].rating ELSE 0]
    IN  [i \in DOMAIN sorted |->
            [date |-> sorted[i].date, album_id |-> sorted[i].album_id,
             rating_mean |-> [sum |-> Sum(ratings(sorted[i])),
                              count |-> Cardinality(group(sorted[i]))]]]

RECURSIVE SelectColumn(_, _, _)
SelectColumn(rows, id, col) ==
    IF rows = <<>> THEN <<>>
    ELSE (IF Head(rows).album_id = id THEN <<Head(rows)[col]>> ELSE <<>>)
         \o SelectColumn(Tail(rows), id, col)

\* px.line(mean_over_time, x='date', y='rating_mean', color='album_id').
mean_over_time_fig(grouped) ==
    LET ids == DistinctIds(grouped, {})
    IN  [i \in DOMAIN ids |->
            [album_id |-> ids[i], name |-> ids[i], legendgroup |-> ids[i],
             hovertemplate |-> LineHover(ids[i]),
             x |-> SelectColumn(grouped, ids[i], "date"),
             y |-> SelectColumn(grouped, ids[i], "rating_mean")]]


(***************************************************************************)
(* One execution of the script (lines 40-157), in two steps: lines 40-111  *)
(* up to the "Stats for nerds" panel, then the charts of lines 112-157.    *)
(***************************************************************************)
\* Nothing rendered yet.
EmptyView ==
    [options |-> <<>>,            \* the selectboxes' options
     names |-> <<None, None>>,    \* album_1_name, album_2_name
     message |-> FALSE,           \* the retry message of line 67
     ids |-> << <<>>, <<>> >>,    \* album_1_id, album_2_id: <<>> when unbound
     error |-> "none",            \* the exception that ended the execution
     error_line |-> 0,
     cards |-> <<>>,              \* the two metadata cards
     verdict |-> <<>>,            \* the verdict sentence
     stats |-> <<>>,              \* t_stat and p_value of "Stats for nerds"
     combined |-> <<>>,           \* combined_data_for_graphs handed to plotly
     built |-> <<>>,              \* the histogram figure as px.histogram built it
     charts |-> <<>>]             \* the figures st.plotly_chart rendered

\* The script's variables that the charts read; none before line 70 is passed.
NoFrame == <<>>

\* st.selectbox(label, options, key=...): the widget's value when it is an
\* option, else the first option, else None.
SelectBox(options, value) ==
    IF options = <<>> THEN None
    ELSE IF \E i \in DOMAIN options : options[i] = value THEN value
    ELSE options[1]

\* An exception ends the execution.
Raise(c, r, v, error, line) ==
    [cache |-> c, reads |-> r, frame |-> NoFrame, pc |-> "end",
     view |-> [v EXCEPT !.error = error, !.error_line = line]]

\* Lines 69-110, with both ids bound.
Compare(c, r, v, files, album_1_id, album_2_id, q) ==
    LET lr == CachedCall(c, r, "load_all_ratings", files)
        data == load_albums_ratings(CopyOfCached(lr.value), album_1_id, album_2_id)
        la == CachedCall(lr.cache, lr.reads, "load_all_albums", files)
        recs1 == MetadataRecords(la.value, album_1_id)
        recs2 == MetadataRecords(la.value, album_2_id)
    IN  IF recs1 = <<>> THEN Raise(la.cache, la.reads, v, "IndexError", 36)
        ELSE IF recs2 = <<>> THEN Raise(la.cache, la.reads, v, "IndexError", 37)
        ELSE
        LET m1 == recs1[1]
            m2 == recs2[1]
            tt == TTestInd(RatingColumn(data[1]), RatingColumn(data[2]), q)
        IN  [cache |-> la.cache, reads |-> la.reads, pc |-> "line 112",
             frame |-> <<[album_1_data |-> data[1], album_2_data |-> data[2],
                          album_1_metadata |-> m1, album_2_metadata |-> m2]>>,
             view |-> [v EXCEPT !.cards = <<m1, m2>>,
                                !.verdict = <<Verdict(tt.p_value, m1, m2)>>,
                                !.stats = <<tt>>]]

\* Lines 40-111, run with the store c, the counters r and the widget values
\* w; q is the p-value of a finite, non-zero statistic.
Script(c, r, files, w, q) ==
    LET dd == CachedCall(c, r, "load_dropdown_data", files)
        options == dd.value.artist_name_list
        album_1_name == SelectBox(options, w[1])
        album_2_name == SelectBox(options, w[2])
        sel == ResolveSelection(dd.value.mapping_album_id, album_1_name, album_2_name)
        v == [EmptyView EXCEPT !.options = options,
                               !.names = <<album_1_name, album_2_name>>,
                               !.message = sel.message,
                               !.ids = sel.ids]
    IN  \* line 69 reads album_1_id and album_2_id
        IF sel.ids[1] = <<>> \/ sel.ids[2] = <<>>
        THEN Raise(dd.cache, dd.reads, v, "NameError", 69)
        ELSE Compare(dd.cache, dd.reads, v, files, sel.ids[1][1], sel.ids[2][1], q)

\* Lines 112-157.
Charts(c, v, f) ==
    LET combined_data_for_graphs == Concat(f.album_1_data, f.album_2_data)
        fig == histograms_fig(combined_data_for_graphs)
        nm == name_mapping(f.album_1_metadata, f.album_2_metadata)
        v1 == [v EXCEPT !.combined = <<combined_data_for_graphs.rows>>,
                        !.built = <<fig>>]
    IN  IF ForEachTraceRaises(fig, nm)
        THEN [cache |-> c, view |-> [v1 EXCEPT !.error = "KeyError", !.error_line = 127]]
        ELSE
        LET v2 == [v1 EXCEPT !.charts = <<ForEachTrace(fig, nm)>>]
            \* line 135 binds a second name to the same table
            assigned == AssignColumns(combined_data_for_graphs)
            c2 == StoreAfterAssign(c, combined_data_for_graphs, assigned)
            line_fig == mean_over_time_fig(
                            mean_over_time(assigned, f.album_1_metadata.album_id_is_int))
        IN  IF ForEachTraceRaises(line_fig, nm)
            THEN [cache |-> c2,
                  view |-> [v2 EXCEPT !.error = "KeyError", !.error_line = 152]]
            ELSE [cache |-> c2,
                  view |-> [v2 EXCEPT !.charts = @ \o <<ForEachTrace(line_fig, nm)>>]]

(***************************************************************************)
(* The state machine.                                                      *)
(***************************************************************************)
Init ==
    \E ids \in IdColumns, dir \in Directories,
       votes \in [DOMAIN AlbumKeys -> VoteLists],
       agg \in [DOMAIN AlbumKeys -> Ratings] :
        /\ csv = [directory |-> DirectoryFile(ids, dir),
                  ratings |-> RatingsFile(ids, votes),
                  albums |-> AlbumsFile(ids, agg)]
        /\ cache = [f \in LoaderNames |-> <<>>]
        /\ reads = [f \in LoaderNames |-> 0]
        /\ widget = <<None, None>>
        /\ pc = "start"
        /\ frame = NoFrame
        /\ view = EmptyView

\* Streamlit starts an execution of the script with the widget values w.
Execute(w) ==
    \E q \in InteriorP :
        LET run == Script(cache, reads, csv, w, q)
        IN  /\ cache' = run.cache
            /\ reads' = run.reads
            /\ view' = run.view
            /\ frame' = run.frame
            /\ pc' = run.pc
            /\ widget' = run.view.names
            /\ UNCHANGED csv

\* A session starts: the script runs with no widget value set.
FirstRun ==
    /\ pc = "start"
    /\ Execute(widget)

\* The user picks another option of the first selectbox.
SelectFirst ==
    /\ pc = "end"
    /\ \E i \in DOMAIN view.options :
        /\ view.options[i] # widget[1]
        /\ Execute(<<view.options[i], widget[2]>>)

\* The user picks another option of the second selectbox.
SelectSecond ==
    /\ pc = "end"
    /\ \E i \in DOMAIN view.options :
        /\ view.options[i] # widget[2]
        /\ Execute(<<widget[1], view.options[i]>>)

\* The user asks for a rerun without touching a widget.
Rerun ==
    /\ pc = "end"
    /\ Execute(widget)

\* The execution goes on from line 112 to the end of the script.
DrawCharts ==
    /\ pc = "line 112"
    /\ LET run == Charts(cache, view, frame[1])
       IN  /\ cache' = run.cache
           /\ view' = run.view
    /\ frame' = NoFrame
    /\ pc' = "end"
    /\ UNCHANGED <<csv, reads, widget>>

Next == FirstRun \/ SelectFirst \/ SelectSecond \/ Rerun \/ DrawCharts

Spec == Init /\ [][Next]_vars


(***************************************************************************)
(* Properties.  An execution has a verdict once view.stats is set; then    *)
(* view.cards holds the two metadata records and view.ids the two ids.     *)
(***************************************************************************)
HasVerdict == view.stats # <<>>
PValue == view.stats[1].p_value
TStat == view.stats[1].t_stat
Rating1 == view.cards[1].rating
Rating2 == view.cards[2].rating

\* p_value > 0.05 and p_value <= 0.05 as the claims mean them, of a number.
AboveLevel == ~PValue.nan /\ PValue.num * 20 > PValue.den
AtOrBelowLevel == ~PValue.nan /\ PValue.num * 20 <= PValue.den

\* C1: whenever the Welch test's p_value is greater than 0.05, the verdict
\* is the indeterminate sentence ("can not say"), whatever the order of the
\* two albums' aggregate ratings.
C1_AboveLevelIsIndeterminate ==
    HasVerdict /\ AboveLevel => view.verdict = <<CanNotSay>>

\* C1's case: p_value > 0.05 with album_1's aggregate rating the higher one.
C1_Witness ==
    /\ HasVerdict /\ AboveLevel
    /\ Rating1 > Rating2
    /\ view.verdict = <<CanNotSay>>

\* C2: whenever p_value <= 0.05 and the aggregate ratings differ, the verdict
\* names the album of the strictly higher aggregate rating as the better
\* one, its name first in the sentence.
C2_HigherRatingWins ==
    HasVerdict /\ AtOrBelowLevel /\ Rating1 # Rating2 =>
        view.verdict =
            << IF Rating1 > Rating2
               THEN BetterThan(view.cards[1].name, view.cards[2].name)
               ELSE BetterThan(view.cards[2].name, view.cards[1].name) >>

\* C2's case: p_value <= 0.05 and album_2 rated higher, named first.
C2_Witness ==
    /\ HasVerdict /\ AtOrBelowLevel
    /\ Rating1 < Rating2
    /\ view.verdict = <<BetterThan(view.cards[2].name, view.cards[1].name)>>

\* C3: whenever p_value <= 0.05 and the two aggregate ratings are equal, the
\* verdict is indeterminate: no album is named the winner.
C3_TieIsIndeterminate ==
    HasVerdict /\ AtOrBelowLevel /\ Rating1 = Rating2 =>
        view.verdict = <<CanNotSay>>

\* C3's case: two different albums of equal aggregate rating, p_value <= 0.05.
C3_Witness ==
    /\ HasVerdict /\ AtOrBelowLevel
    /\ view.ids[1] # view.ids[2]
    /\ Rating1 = Rating2
    /\ view.verdict = <<CanNotSay>>

\* C4: whenever the two selected albums are the same, whatever the album's
\* rating events are, p_value = 1.0 and t_statistic = 0, and the verdict is
\* indeterminate.
C4_SameAlbum ==
    HasVerdict /\ view.ids[1] = view.ids[2] =>
        /\ ~PValue.nan /\ PValue.num = PValue.den
        /\ TStat.kind = "finite" /\ TStat.sign = 0
        /\ view.verdict = <<CanNotSay>>

\* C5: for every pair of album ids of the metadata table the p_value is a
\* number of the closed interval [0,1], never NaN.
C5_PValueInUnitInterval ==
    HasVerdict => ~PValue.nan /\ 0 <= PValue.num /\ PValue.num <= PValue.den

\* C6: each loader reads its file at most once, on its first call; a later
\* call returns the stored value without reading; and no step of an
\* execution changes a stored value.
C6_LoadOnce ==
    [][\A f \in LoaderNames :
        /\ reads'[f] <= 1
        /\ cache[f] # <<>> => cache'[f] = cache[f] /\ reads'[f] = reads[f]
        /\ cache[f] = <<>> /\ cache'[f] # <<>> =>
              /\ reads'[f] = reads[f] + 1
              /\ cache'[f] = <<LoaderBody(f, csv)>>]_vars

\* C6's case: an execution after the first, of another selection, that drew
\* both charts (so that lines 136-137 assigned their columns), every file
\* read once.
C6_Witness ==
    /\ pc = "end"
    /\ view.names = <<ArtistNames[2], ArtistNames[1]>>
    /\ Len(view.charts) = 2
    /\ \A f \in LoaderNames : reads[f] = 1 /\ cache[f] # <<>>

\* The name of the album that a trace tagged id stands for.
NameOfId(id) ==
    IF view.cards[1].album_id = id THEN view.cards[1].name ELSE view.cards[2].name

\* C7: every rendered series, of the histogram and of the line chart, shows
\* the album's name where the raw album id would have appeared (trace name,
\* legend group, hover text), and nothing else of the hover text is altered.
C7_Relabelled ==
    \A c \in DOMAIN view.charts : \A i \in DOMAIN view.charts[c] :
        LET t == view.charts[c][i]
            name == NameOfId(t.album_id)
        IN  /\ t.name = name
            /\ t.legendgroup = name
            /\ t.hovertemplate =
                  (IF c = 1 THEN HistogramHover(name) ELSE LineHover(name))

\* A selected name is no key of the name-to-id mapping.
LookupFailed ==
    /\ pc # "start"
    /\ \E k \in 1..2 : view.names[k] \notin DOMAIN MappingOf(csv.directory)

\* C8 as stated: when a lookup fails the retry message is displayed and the
\* rest of the pipeline (filter, metadata, t-test, verdict, charts) still
\* runs to completion.
C8_RunsToCompletion ==
    LookupFailed /\ pc = "end" =>
        /\ view.message
        /\ view.error = "none"
        /\ view.verdict # <<>>
        /\ Len(view.charts) = 2

\* C8 as amended: when a lookup fails the retry message is displayed and the
\* execution ends at line 69 with a NameError, an identifier being unbound:
\* no card, verdict, statistic or chart is rendered.
C8_StopsAtLine69 ==
    LookupFailed =>
        /\ view.message
        /\ pc = "end"
        /\ view.error = "NameError" /\ view.error_line = 69
        /\ \E k \in 1..2 : view.ids[k] = <<>>
        /\ view.cards = <<>> /\ view.verdict = <<>> /\ view.stats = <<>>
        /\ view.combined = <<>> /\ view.charts = <<>>

\* C8's case: an execution whose lookup failed.
C8_Witness ==
    /\ LookupFailed
    /\ view.message
    /\ view.error = "NameError"

\* C9: when the t-test's result is NaN (a partition empty, or no variance),
\* the verdict is indeterminate, also when the aggregate ratings differ.
C9_NaNIsIndeterminate ==
    HasVerdict /\ PValue.nan => view.verdict = <<CanNotSay>>

\* C10: the data of the charts holds each rating event of a selected album
\* once and no event of another album: an album's series of the rendered
\* histogram counts as many votes as rating_events.csv has events of that
\* album, also when both selections are the same album.
C10_EachEventOnce ==
    view.charts # <<>> =>
        /\ \A i \in DOMAIN view.combined[1] :
              <<view.combined[1][i].album_id>> \in {view.ids[1], view.ids[2]}
        /\ \A k \in 1..2 :
              LET id == view.ids[k][1]
                  events == SelectRows(csv.ratings.rows, id)
              IN  /\ Len(SelectRows(view.combined[1], id)) = Len(events)
                  /\ \A i \in DOMAIN view.charts[1] :
                        view.charts[1][i].album_id = id =>
                            Len(view.charts[1][i].x) = Len(events)

====
